---- MODULE Spec2Model ----
(***************************************************************************)
(* Model of the database provisioning back ends of the TBD repository:     *)
(*   - the HTTP API server   (TBDback: part_008 main, newhandler.go,       *)
(*                            deployer.go)                                 *)
(*   - the gRPC admin service (Adminms: server.go, internal/k8s part_003)  *)
(* Both drive one Kubernetes cluster (namespaces, deployments, services,   *)
(* Traefik middlewares and ingress routes).  Every Kubernetes API call is  *)
(* one atomic step of the process that issues it.  Strings are TLC         *)
(* strings; fmt.Sprintf is modelled by concatenation.                      *)
(***************************************************************************)
EXTENDS Integers, Sequences, FiniteSets, TLC

(***************************************************************************)
(* Bounds of the model.                                                    *)
(***************************************************************************)
\* number of request slots (operations issued in one behaviour)
MaxProcs == 2
\* number of request slots when every request waits for the previous answer
MaxSeqProcs == 3
\* number of Kubernetes API calls that may fail with a transient error
MaxFaults == 1
\* longest tenant handle of the naming specification
MaxHandleLen == 66
\* calls of GetUserNamespace on one input in the naming specification
MaxNamingCalls == 2
\* largest tenant id of the naming specification
MaxTenantID == 12

(***************************************************************************)
(* Program constants.                                                      *)
(***************************************************************************)
\* Kubernetes namespace names are cut to this many bytes
MaxNamespaceLen == 63

\* cluster entry point used in routes and admin URLs
EntryHost == "10.9.21.201"

(***************************************************************************)
(* Strings.                                                                *)
(***************************************************************************)
Digit(d) == SubSeq("0123456789", d + 1, d + 1)

RECURSIVE ItoaNat(_)
ItoaNat(n) == IF n < 10 THEN Digit(n) ELSE ItoaNat(n \div 10) \o Digit(n % 10)

\* strconv.Itoa / fmt "%d"
Itoa(n) == IF n < 0 THEN "-" \o ItoaNat(0 - n) ELSE ItoaNat(n)

RECURSIVE Repeat(_, _)
Repeat(c, n) == IF n = 0 THEN "" ELSE c \o Repeat(c, n - 1)

(***************************************************************************)
(* Naming Deriver.                                                         *)
(***************************************************************************)
\* faulty variant of GetUserNamespace: the name is never cut
GetUserNamespace_NoTruncate(userID, username) == Itoa(userID) \o username

\* GetUserNamespace of deployer.go and of the K8sService
GetUserNamespace(userID, username) ==
    LET namespaceName == Itoa(userID) \o username
    IN  IF Len(namespaceName) > MaxNamespaceLen
        THEN SubSeq(namespaceName, 1, MaxNamespaceLen)
        ELSE namespaceName

\* "/%s/%s-%s" of namespace, database name and admin type
PathPrefix(namespace, name, adminType) ==
    "/" \o namespace \o "/" \o name \o "-" \o adminType

(***************************************************************************)
(* Resource Spec Builder of the HTTP API server (newhandler.go).  A label  *)
(* map is a function from label keys to values; env holds the variables    *)
(* that tell an admin console its mount path.                              *)
(***************************************************************************)
Label(k, v) == k :> v

createPostgreSQLDeployment(dbRequest, namespace) ==
    [ name   |-> dbRequest.Name,
      labels |-> Label("app", dbRequest.Name)
                 @@ Label("app.kubernetes.io/component", "database")
                 @@ Label("app.kubernetes.io/managed-by", "db-saas")
                 @@ Label("db-saas/type", "postgresql")
                 @@ Label("db-saas/user-id", Itoa(dbRequest.UserID)),
      image  |-> "postgres:latest",
      port   |-> 5432,
      env    |-> {} ]

createPostgreSQLService(dbRequest) ==
    [ name |-> dbRequest.Name, port |-> 5432 ]

createMySQLDeployment(dbRequest, namespace) ==
    [ name   |-> dbRequest.Name,
      labels |-> Label("app", dbRequest.Name)
                 @@ Label("app.kubernetes.io/component", "database")
                 @@ Label("app.kubernetes.io/managed-by", "db-saas")
                 @@ Label("db-saas/type", "mysql")
                 @@ Label("db-saas/user-id", Itoa(dbRequest.UserID)),
      image  |-> "mysql:latest",
      port   |-> 3306,
      env    |-> {} ]

createMySQLService(dbRequest) ==
    [ name |-> dbRequest.Name, port |-> 3306 ]

createPgAdminDeployment(dbRequest, namespace) ==
    LET scriptName == "/" \o namespace \o "/" \o dbRequest.Name \o "-pgadmin"
    IN  [ name   |-> dbRequest.Name \o "-pgadmin",
          labels |-> Label("app", dbRequest.Name \o "-pgadmin")
                     @@ Label("app.kubernetes.io/managed-by", "db-saas"),
          image  |-> "dpage/pgadmin4:latest",
          port   |-> 80,
          env    |-> {[name |-> "SCRIPT_NAME", value |-> scriptName]} ]

createPgAdminService(dbRequest) ==
    [ name |-> dbRequest.Name \o "-pgadmin", port |-> 80 ]

createPhpMyAdminDeployment(dbRequest, namespace) ==
    [ name   |-> dbRequest.Name \o "-phpmyadmin",
      labels |-> Label("app", dbRequest.Name \o "-phpmyadmin")
                 @@ Label("app.kubernetes.io/component", "admin-dashboard")
                 @@ Label("app.kubernetes.io/managed-by", "db-saas")
                 @@ Label("db-saas/type", "phpmyadmin")
                 @@ Label("db-saas/user-id", Itoa(dbRequest.UserID)),
      image  |-> "phpmyadmin:5.2",
      port   |-> 80,
      env    |-> {} ]

createPhpMyAdminService(dbRequest) ==
    [ name |-> dbRequest.Name \o "-phpmyadmin", port |-> 80 ]

(***************************************************************************)
(* Resource Spec Builder of the gRPC admin service (part_003,              *)
(* internal/k8s/deployments.go).                                           *)
(***************************************************************************)
K8sService_createPostgreSQLDeployment(req, namespace) ==
    [ name   |-> req.Name,
      labels |-> Label("app", req.Name)
                 @@ Label("app.kubernetes.io/component", "database")
                 @@ Label("app.kubernetes.io/managed-by", "db-saas")
                 @@ Label("db-saas/type", "postgresql")
                 @@ Label("db-saas/user-id", Itoa(req.UserID)),
      image  |-> "postgres:14",
      port   |-> 5432,
      env    |-> {} ]

K8sService_createMySQLDeployment(req, namespace) ==
    [ name   |-> req.Name,
      labels |-> Label("app", req.Name)
                 @@ Label("app.kubernetes.io/component", "database")
                 @@ Label("app.kubernetes.io/managed-by", "db-saas")
                 @@ Label("db-saas/type", "mysql")
                 @@ Label("db-saas/user-id", Itoa(req.UserID)),
      image  |-> "mysql:8.0",
      port   |-> 3306,
      env    |-> {} ]

\* faulty variant of K8sService_createPgAdminDeployment: SCRIPT_NAME is kept
\* although the route strips the prefix
K8sService_createPgAdminDeployment_ScriptName(req, namespace) ==
    [ name   |-> req.Name \o "-pgadmin",
      labels |-> Label("app", req.Name \o "-pgadmin")
                 @@ Label("app.kubernetes.io/component", "admin-dashboard")
                 @@ Label("app.kubernetes.io/managed-by", "db-saas")
                 @@ Label("db-saas/type", "pgadmin")
                 @@ Label("db-saas/user-id", Itoa(req.UserID)),
      image  |-> "dpage/pgadmin4:latest",
      port   |-> 80,
      env    |-> {[name |-> "SCRIPT_NAME",
                   value |-> "/" \o namespace \o "/" \o req.Name \o "-pgadmin"]} ]

K8sService_createPgAdminDeployment(req, namespace) ==
    [ name   |-> req.Name \o "-pgadmin",
      labels |-> Label("app", req.Name \o "-pgadmin")
                 @@ Label("app.kubernetes.io/component", "admin-dashboard")
                 @@ Label("app.kubernetes.io/managed-by", "db-saas")
                 @@ Label("db-saas/type", "pgadmin")
                 @@ Label("db-saas/user-id", Itoa(req.UserID)),
      image  |-> "dpage/pgadmin4:latest",
      port   |-> 80,
      env    |-> {} ]

K8sService_createPhpMyAdminDeployment(req, namespace) ==
    [ name   |-> req.Name \o "-phpmyadmin",
      labels |-> Label("app", req.Name \o "-phpmyadmin")
                 @@ Label("app.kubernetes.io/component", "admin-dashboard")
                 @@ Label("app.kubernetes.io/managed-by", "db-saas")
                 @@ Label("db-saas/type", "phpmyadmin")
                 @@ Label("db-saas/user-id", Itoa(req.UserID)),
      image  |-> "phpmyadmin:5.2",
      port   |-> 80,
      env    |-> {} ]

K8sService_createPostgreSQLService(req) ==
    [ name |-> req.Name, port |-> 5432 ]

K8sService_createMySQLService(req) ==
    [ name |-> req.Name, port |-> 3306 ]

K8sService_createPgAdminService(req) ==
    [ name |-> req.Name \o "-pgadmin", port |-> 80 ]

K8sService_createPhpMyAdminService(req) ==
    [ name |-> req.Name \o "-phpmyadmin", port |-> 80 ]

(***************************************************************************)
(* Routing Spec Builder of the HTTP API server (newhandler.go).            *)
(***************************************************************************)
\* the header-injection middleware of createPgAdminMiddleware
headersMiddleware_pgadmin(dbRequest, namespace) ==
    [ name    |-> dbRequest.Name \o "-pgadmin-headers",
      kind    |-> "headers",
      headers |-> Label("X-User-ID", Itoa(dbRequest.UserID))
                  @@ Label("X-Username", dbRequest.Username)
                  @@ Label("X-Namespace", namespace) ]

\* the header-injection middleware of createTraefikMiddleware
headersMiddleware(dbRequest, namespace, adminType) ==
    [ name    |-> dbRequest.Name \o "-" \o adminType \o "-headers",
      kind    |-> "headers",
      headers |-> Label("X-User-ID", Itoa(dbRequest.UserID))
                  @@ Label("X-Username", dbRequest.Username)
                  @@ Label("X-Namespace", namespace) ]

\* the replacePathRegex middleware of createTraefikMiddleware
replacePathMiddleware(dbRequest, namespace, adminType) ==
    LET pathPrefix == PathPrefix(namespace, dbRequest.Name, adminType)
    IN  [ name        |-> dbRequest.Name \o "-" \o adminType \o "-replacepath",
          kind        |-> "replacePathRegex",
          regex       |-> "^" \o pathPrefix \o "/(.*)",
          replacement |-> "/$1" ]

\* the route object of createPgAdminIngressRoute
createPgAdminIngressRoute(dbRequest, namespace, port) ==
    LET ingressName == dbRequest.Name \o "-pgadmin-ingress"
        serviceName == dbRequest.Name \o "-pgadmin"
        headersMW   == dbRequest.Name \o "-pgadmin-headers"
        pathPrefix  == "/" \o namespace \o "/" \o dbRequest.Name \o "-pgadmin"
    IN  [ name        |-> ingressName,
          match       |-> [host |-> EntryHost, pathPrefix |-> pathPrefix],
          middlewares |-> <<headersMW>>,
          service     |-> [name |-> serviceName, port |-> port] ]

\* the route object of createTraefikIngressRoute
createTraefikIngressRoute(dbRequest, namespace, adminType, port) ==
    LET ingressName == dbRequest.Name \o "-" \o adminType \o "-ingress"
        serviceName == dbRequest.Name \o "-" \o adminType
        headersMW   == dbRequest.Name \o "-" \o adminType \o "-headers"
        pathPrefix  == PathPrefix(namespace, dbRequest.Name, adminType)
        replacePathMW == dbRequest.Name \o "-" \o adminType \o "-replacepath"
        middlewares == IF adminType = "phpmyadmin"
                       THEN <<headersMW, replacePathMW>>
                       ELSE <<headersMW>>
    IN  [ name        |-> ingressName,
          match       |-> [host |-> EntryHost, pathPrefix |-> pathPrefix],
          middlewares |-> middlewares,
          service     |-> [name |-> serviceName, port |-> port] ]

(***************************************************************************)
(* Routing Spec Builder of the gRPC admin service                          *)
(* (part_003, K8sService.createTraefikResources).                          *)
(***************************************************************************)
K8sService_stripMiddleware(req, namespace, adminType) ==
    LET pathPrefix == PathPrefix(namespace, req.Name, adminType)
    IN  [ name     |-> req.Name \o "-" \o adminType \o "-stripprefix",
          kind     |-> "stripPrefix",
          prefixes |-> <<pathPrefix>> ]

K8sService_ingressRoute(req, namespace, adminType) ==
    LET pathPrefix == PathPrefix(namespace, req.Name, adminType)
    IN  [ name        |-> req.Name \o "-" \o adminType \o "-ingress",
          match       |-> [host |-> EntryHost, pathPrefix |-> pathPrefix],
          middlewares |-> <<req.Name \o "-" \o adminType \o "-stripprefix">>,
          service     |-> [name |-> req.Name \o "-" \o adminType, port |-> 80] ]

(***************************************************************************)
(* The router (Traefik, external) applied to the objects the builders      *)
(* write: the PathPrefix matcher of a route and its path middlewares.      *)
(***************************************************************************)
HasPrefix(str, prefix) ==
    Len(str) >= Len(prefix) /\ SubSeq(str, 1, Len(prefix)) = prefix

TrimPrefix(str, prefix) == SubSeq(str, Len(prefix) + 1, Len(str))

\* PathPrefix("...") of a route's match expression
RouteMatches(route, path) == HasPrefix(path, route.match.pathPrefix)

\* replacePathRegex with the regex ^{prefix}/(.*) and the replacement /$1: a
\* path the regex does not match is passed on as it is
ReplacePathRegex(mw, path) ==
    LET anchored == SubSeq(mw.regex, 2, Len(mw.regex) - Len("(.*)"))
    IN  IF HasPrefix(path, anchored)
        THEN SubSeq(mw.replacement, 1, Len(mw.replacement) - Len("$1"))
             \o TrimPrefix(path, anchored)
        ELSE path

\* stripPrefix: the prefix is cut and the rest starts with a slash
StripPrefix(mw, path) ==
    IF HasPrefix(path, mw.prefixes[1])
    THEN LET rest == TrimPrefix(path, mw.prefixes[1])
         IN  IF HasPrefix(rest, "/") THEN rest ELSE "/" \o rest
    ELSE path

\* the path after one middleware
ApplyMiddleware(mw, path) ==
    CASE mw.kind = "replacePathRegex" -> ReplacePathRegex(mw, path)
      [] mw.kind = "stripPrefix" -> StripPrefix(mw, path)
      [] OTHER -> path

(***************************************************************************)
(* Inputs.                                                                 *)
(***************************************************************************)
\* registered tenants: id and handle (the login name)
Tenants == { [id |-> 7, handle |-> "alice"] }

\* database names: the second one is also the name of the first one's pgAdmin
DatabaseNames == { "orders-db", "orders-db-pgadmin" }

DatabaseTypes == { "postgresql", "mysql" }

\* database user names sent in a request
DbUsernames == { "dbadmin" }

\* values of the DB_PORT environment variable ("" is unset)
DbPortEnv == { "", "6543" }

\* the JSON body of POST /api/databases sent for a tenant
TenantRequests ==
    { [ Name |-> n, Username |-> u, Password |-> "secret", Type |-> t,
        UserID |-> tn.id, UserName |-> tn.handle ] :
      n \in DatabaseNames, u \in DbUsernames, t \in DatabaseTypes, tn \in Tenants }

\* a body without user information
AnonymousRequests ==
    { [ Name |-> "catalog", Username |-> "dbadmin", Password |-> "secret",
        Type |-> "mysql", UserID |-> 0, UserName |-> "" ] }

\* a body whose type is neither "mysql" nor "postgresql": the handler accepts
\* every type string
OtherTypeRequests ==
    { [ Name |-> "orders-db", Username |-> "dbadmin", Password |-> "secret",
        Type |-> "postgres", UserID |-> tn.id, UserName |-> tn.handle ] :
      tn \in Tenants }

HttpRequests == TenantRequests \cup AnonymousRequests \cup OtherTypeRequests

\* the JSON body of POST /api/namespace/create
NamespaceRequests ==
    { [ UserID |-> tn.id, Username |-> tn.handle ] : tn \in Tenants }
    \cup { [ UserID |-> 0, Username |-> "" ] }

\* the CreateDatabaseRequest message of the gRPC service
RpcRequests ==
    { [ Name |-> n, Username |-> u, Password |-> "secret", Type |-> t,
        UserId |-> tn.id ] :
      n \in DatabaseNames, u \in DbUsernames, t \in DatabaseTypes, tn \in Tenants }
    \cup { [ Name |-> "catalog", Username |-> "dbadmin", Password |-> "secret",
             Type |-> "", UserId |-> 7 ] }

\* tenant handles of the naming specification
NamingHandles ==
    { "alice", "bob" } \cup { Repeat("a", n) : n \in 0 .. MaxHandleLen }

\* tenant handles of the isolation specification
IsolationHandles == { "alice", "bob", "1bob", "7alice" }

\* namespaces a Decommission or ListDatabases request may name
RequestNamespaces ==
    { GetUserNamespace(tn.id, tn.handle) : tn \in Tenants }
    \cup { GetUserNamespace(tn.id, "user" \o Itoa(tn.id)) : tn \in Tenants }

Procs == 1 .. (IF MaxSeqProcs > MaxProcs THEN MaxSeqProcs ELSE MaxProcs)

(***************************************************************************)
(* State.                                                                  *)
(***************************************************************************)
VARIABLES
    clients,        \* HTTP server: the deployment handler's client is initialized
    clientset,      \* HTTP server: the typed Kubernetes client is initialized
    dynamicClient,  \* HTTP server: the dynamic (Traefik) client is initialized
    k8sService,     \* gRPC server: the K8sService was constructed
    dbPortEnv,      \* HTTP server: the DB_PORT environment variable
    sequential,     \* callers: a request is sent once the previous one is answered
    namespaces,     \* cluster: namespace objects
    deployments,    \* cluster: deployment objects
    services,       \* cluster: service objects
    middlewares,    \* cluster: Traefik middleware objects
    ingressroutes,  \* cluster: Traefik ingress route objects
    procs,          \* the requests: position, API calls issued, result
    faults,         \* transient API errors injected so far
    nmUserID,       \* naming specification: tenant id
    nmUsername,     \* naming specification: tenant handle
    nmResult,       \* naming specification: results of GetUserNamespace
    nmPeerID,       \* isolation specification: id of a second tenant
    nmPeerName,     \* isolation specification: handle of the second tenant
    nmPeerResult    \* isolation specification: GetUserNamespace of the second tenant

cluster == <<namespaces, deployments, services, middlewares, ingressroutes>>
config  == <<clients, clientset, dynamicClient, k8sService, dbPortEnv, sequential>>
naming  == <<nmUserID, nmUsername, nmResult, nmPeerID, nmPeerName, nmPeerResult>>
vars    == <<config, cluster, procs, faults, naming>>

NoRequest ==
    [ Name |-> "", Username |-> "", Password |-> "", Type |-> "", UserID |-> 0,
      UserName |-> "" ]

NoResponse == [ Status |-> "" ]

IdleProc ==
    [ op      |-> "idle",      \* "ensure", "provision", "decommission", "list"
      iface   |-> "",          \* "http", "rpc"
      req     |-> NoRequest,
      pc      |-> "idle",
      ns      |-> "",          \* the namespace the operation works in
      dbType  |-> "",          \* Decommission: the type read back
      calls   |-> <<>>,        \* the Kubernetes API calls issued, in order
      tenant  |-> [id |-> 0, handle |-> ""],  \* the tenant that sent it
      outcome |-> "",          \* "ok" or "error" once the caller has its answer
      err     |-> "",
      resp    |-> NoResponse,
      items   |-> {},          \* ListDatabases: deployments still to probe
      listing |-> <<>> ]       \* ListDatabases: entries produced

(***************************************************************************)
(* The Kubernetes API (external): create is create-or-conflict, delete     *)
(* and get report not-found, any call may fail with a transient error.     *)
(***************************************************************************)
ObjExists(objs, ns, name) == \E o \in objs : o.ns = ns /\ o.name = name

ObjGet(objs, ns, name) == CHOOSE o \in objs : o.ns = ns /\ o.name = name

NamespaceExists(ns) == \E o \in namespaces : o.name = ns

Kind(kind) ==
    CASE kind = "deployment"   -> deployments
      [] kind = "service"      -> services
      [] kind = "middleware"   -> middlewares
      [] kind = "ingressroute" -> ingressroutes

Transient == IF faults < MaxFaults THEN {"Error"} ELSE {}

\* faulty variant of CreateResults: a create of an existing object is accepted
CreateResults_NoConflict(kind, ns, name) ==
    Transient \cup { IF ~NamespaceExists(ns) THEN "NotFound" ELSE "ok" }

CreateResults(kind, ns, name) ==
    Transient \cup
    { IF ~NamespaceExists(ns) THEN "NotFound"
      ELSE IF ObjExists(Kind(kind), ns, name) THEN "AlreadyExists"
      ELSE "ok" }

DeleteResults(kind, ns, name) ==
    Transient \cup
    { IF ObjExists(Kind(kind), ns, name) THEN "ok" ELSE "NotFound" }

GetResults(kind, ns, name) ==
    Transient \cup
    { IF ObjExists(Kind(kind), ns, name) THEN "ok" ELSE "NotFound" }

Stored(obj, ns) == [ns |-> ns] @@ obj

AfterCreate(objs, kind, k, ns, obj, res) ==
    IF kind = k /\ res = "ok" THEN objs \cup {Stored(obj, ns)} ELSE objs

AfterDelete(objs, kind, k, ns, name, res) ==
    IF kind = k /\ res = "ok"
    THEN {o \in objs : ~(o.ns = ns /\ o.name = name)}
    ELSE objs

\* the effect of one create call on the cluster
ApplyCreate(kind, ns, obj, res) ==
    /\ deployments'   = AfterCreate(deployments, kind, "deployment", ns, obj, res)
    /\ services'      = AfterCreate(services, kind, "service", ns, obj, res)
    /\ middlewares'   = AfterCreate(middlewares, kind, "middleware", ns, obj, res)
    /\ ingressroutes' = AfterCreate(ingressroutes, kind, "ingressroute", ns, obj, res)
    /\ faults' = IF res = "Error" THEN faults + 1 ELSE faults
    /\ UNCHANGED namespaces

\* the effect of one delete call on the cluster
ApplyDelete(kind, ns, name, res) ==
    /\ deployments'   = AfterDelete(deployments, kind, "deployment", ns, name, res)
    /\ services'      = AfterDelete(services, kind, "service", ns, name, res)
    /\ middlewares'   = AfterDelete(middlewares, kind, "middleware", ns, name, res)
    /\ ingressroutes' = AfterDelete(ingressroutes, kind, "ingressroute", ns, name, res)
    /\ faults' = IF res = "Error" THEN faults + 1 ELSE faults
    /\ UNCHANGED namespaces

\* the record of one API call in a request's log
Call(verb, kind, ns, name, obj, res) ==
    [ verb |-> verb, kind |-> kind, ns |-> ns, name |-> name, obj |-> obj,
      result |-> res ]

NoObject == [ name |-> "" ]

\* a request after one more API call, at its next position
Advance(pr, call, pc) == [pr EXCEPT !.calls = Append(@, call), !.pc = pc]

\* a request that returns an error to its caller
Fail(pr, err) == [pr EXCEPT !.pc = "done", !.outcome = "error", !.err = err]

(***************************************************************************)
(* Provision.                                                              *)
(***************************************************************************)
\* requests are issued in slot order: concurrently, or each one after the
\* answer to the previous one (a caller that retries)
CanStart(p) ==
    /\ procs[p].pc = "idle"
    /\ p <= (IF sequential THEN MaxSeqProcs ELSE MaxProcs)
    /\ IF p = 1 THEN TRUE
       ELSE IF sequential THEN procs[p - 1].pc = "done"
       ELSE procs[p - 1].pc # "idle"

Started(op, iface, req, tenant) ==
    [IdleProc EXCEPT !.op = op, !.iface = iface, !.req = req, !.tenant = tenant]

\* POST /api/databases up to the call of deployDatabaseToUserNamespace
PostDatabases(p, dbRequest) ==
    LET tenant == [id |-> dbRequest.UserID, handle |-> dbRequest.UserName]
        pr     == Started("provision", "http", dbRequest, tenant)
    IN  /\ CanStart(p)
        /\ procs' = [procs EXCEPT ![p] =
              IF ~clientset
              THEN Fail(pr, "Kubernetes client not available")
              ELSE IF dbRequest.UserID > 0 /\ dbRequest.UserName # ""
              THEN [pr EXCEPT
                      !.ns = GetUserNamespace(dbRequest.UserID, dbRequest.UserName),
                      !.pc = "nsGet"]
              ELSE Fail(pr, "User information (UserID and UserName) is required")]
        /\ UNCHANGED <<config, cluster, faults, naming>>

\* the internal request AdminServer.CreateDatabase builds from the RPC message
K8sRequest(req) ==
    LET mockUsername == "user" \o Itoa(req.UserId)
    IN  [ Name |-> req.Name, Username |-> req.Username, Password |-> req.Password,
          Type |-> req.Type, UserID |-> req.UserId, UserName |-> mockUsername ]

\* AdminServer.CreateDatabase up to K8sService.CreateDatabase's namespace
AdminServer_CreateDatabase(p, tenant, req) ==
    LET k8sReq == K8sRequest(req)
        pr     == Started("provision", "rpc", k8sReq, tenant)
    IN  /\ CanStart(p)
        /\ procs' = [procs EXCEPT ![p] =
              IF req.Name = "" \/ req.Type = ""
              THEN Fail(pr, "database name and type required")
              ELSE IF ~k8sService
              THEN Fail(pr, "kubernetes service not available")
              ELSE [pr EXCEPT
                      !.ns = GetUserNamespace(k8sReq.UserID, k8sReq.UserName),
                      !.pc = "nsGet"]]
        /\ UNCHANGED <<config, cluster, faults, naming>>

\* POST /api/namespace/create up to the call of ensureNamespaceExists
handleCreateUserNamespace(p, nsRequest) ==
    LET tenant == [id |-> nsRequest.UserID, handle |-> nsRequest.Username]
        req    == [NoRequest EXCEPT !.UserID = nsRequest.UserID,
                                    !.UserName = nsRequest.Username]
        pr     == Started("ensure", "http", req, tenant)
    IN  /\ CanStart(p)
        /\ procs' = [procs EXCEPT ![p] =
              IF ~clients
              THEN Fail(pr, "Kubernetes client not available")
              ELSE IF nsRequest.UserID <= 0 \/ nsRequest.Username = ""
              THEN Fail(pr, "User ID and username are required")
              ELSE [pr EXCEPT
                      !.ns = GetUserNamespace(nsRequest.UserID, nsRequest.Username),
                      !.pc = "nsGet"]]
        /\ UNCHANGED <<config, cluster, faults, naming>>

\* the namespace object the ensureNamespace functions of Provision create
NamespaceObject(namespace) ==
    [ name   |-> namespace,
      labels |-> Label("app.kubernetes.io/managed-by", "db-saas")
                 @@ Label("db-saas/user-namespace", "true") ]

\* the namespace object POST /api/namespace/create creates
createUserNamespace(namespaceName, userID, username) ==
    [ name   |-> namespaceName,
      labels |-> Label("app.kubernetes.io/managed-by", "db-saas")
                 @@ Label("db-saas/user-id", Itoa(userID))
                 @@ Label("db-saas/username", username)
                 @@ Label("db-saas/type", "user-namespace") ]

NamespaceToCreate(pr) ==
    IF pr.op = "ensure"
    THEN createUserNamespace(pr.ns, pr.req.UserID, pr.req.UserName)
    ELSE NamespaceObject(pr.ns)

\* faulty variant of AfterNamespaceGet: the namespace is created without a look
AfterNamespaceGet_AlwaysCreate(op, iface, res) == "nsCreate"

\* what a namespace ensurer does after its Get returned res: the HTTP
\* ensureNamespace creates on any error, ensureNamespaceExists and the
\* K8sService's ensureNamespace only on not-found
AfterNamespaceGet(op, iface, res) ==
    IF res = "ok" THEN "ensured"
    ELSE IF op = "provision" /\ iface = "http" THEN "nsCreate"
    ELSE IF res = "NotFound" THEN "nsCreate"
    ELSE "failed"

\* the request once its namespace is ensured
Ensured(pr) ==
    IF pr.op = "ensure"
    THEN [pr EXCEPT !.pc = "done", !.outcome = "ok",
                    !.resp = [Status |-> "success", Namespace |-> pr.ns]]
    ELSE [pr EXCEPT !.pc = "dbDeployment"]

EnsureFailed(pr) ==
    Fail(pr, IF pr.op = "ensure" THEN "Error creating namespace"
             ELSE "failed to ensure namespace")

\* a namespace ensurer: the Get
ensureNamespace_Get(p) ==
    LET pr == procs[p]
    IN  /\ pr.op \in {"ensure", "provision"} /\ pr.pc = "nsGet"
        /\ \E res \in Transient \cup
                      {IF NamespaceExists(pr.ns) THEN "ok" ELSE "NotFound"} :
             LET call == Call("get", "namespace", "", pr.ns, NoObject, res)
                 to   == AfterNamespaceGet(pr.op, pr.iface, res)
                 nxt  == Advance(pr, call, pr.pc)
             IN  /\ procs' = [procs EXCEPT ![p] =
                       IF to = "failed" THEN EnsureFailed(nxt)
                       ELSE IF to = "ensured" THEN Ensured(nxt)
                       ELSE [nxt EXCEPT !.pc = "nsCreate"]]
                 /\ faults' = IF res = "Error" THEN faults + 1 ELSE faults
        /\ UNCHANGED <<config, cluster, naming>>

\* faulty variant of NamespacesAfterCreate: an existing namespace is replaced
NamespacesAfterCreate_Replace(obj, res) ==
    IF res \in {"ok", "AlreadyExists"}
    THEN {o \in namespaces : o.name # obj.name} \cup {obj}
    ELSE namespaces

\* the namespaces after Namespaces().Create answered res: only a create that
\* succeeded adds the object, nothing is updated or deleted
NamespacesAfterCreate(obj, res) ==
    IF res = "ok" THEN namespaces \cup {obj} ELSE namespaces

\* a namespace ensurer: the Create
ensureNamespace_Create(p) ==
    LET pr == procs[p]
    IN  /\ pr.op \in {"ensure", "provision"} /\ pr.pc = "nsCreate"
        /\ \E res \in Transient \cup
                      {IF NamespaceExists(pr.ns) THEN "AlreadyExists" ELSE "ok"} :
             LET obj  == NamespaceToCreate(pr)
                 call == Call("create", "namespace", "", pr.ns, obj, res)
                 nxt  == Advance(pr, call, pr.pc)
             IN  /\ procs' = [procs EXCEPT ![p] =
                       IF res = "ok" THEN Ensured(nxt) ELSE EnsureFailed(nxt)]
                 /\ namespaces' = NamespacesAfterCreate(obj, res)
                 /\ faults' = IF res = "Error" THEN faults + 1 ELSE faults
        /\ UNCHANGED <<config, deployments, services, middlewares, ingressroutes,
                       naming>>

\* faulty variant of AfterCreateCall: an object that already exists is adopted
AfterCreateCall_Adopt(pr, call, pcNext, err) ==
    IF call.result \in {"ok", "AlreadyExists"}
    THEN Advance(pr, call, pcNext)
    ELSE Fail(Advance(pr, call, pr.pc), err)

\* faulty variant of AfterCreateCall: the deploy function goes on after a refusal
AfterCreateCall_Continue(pr, call, pcNext, err) == Advance(pr, call, pcNext)

\* a deploy function after one create call: on success it goes on to pcNext,
\* any error is returned to the caller
AfterCreateCall(pr, call, pcNext, err) ==
    IF call.result = "ok"
    THEN Advance(pr, call, pcNext)
    ELSE Fail(Advance(pr, call, pr.pc), err)

\* one create call of a deploy function
CreateOrFail(p, kind, obj, pcNext, err) ==
    LET pr == procs[p]
    IN  /\ \E res \in CreateResults(kind, pr.ns, obj.name) :
             LET call == Call("create", kind, pr.ns, obj.name, obj, res)
             IN  /\ ApplyCreate(kind, pr.ns, obj, res)
                 /\ procs' = [procs EXCEPT ![p] =
                       AfterCreateCall(pr, call, pcNext, err)]
        /\ UNCHANGED <<config, naming>>

\* deployDatabaseToUserNamespace / K8sService.CreateDatabase: mysql or else
IsMySQL(pr) == pr.req.Type = "mysql"

AdminTypeOf(pr) == IF IsMySQL(pr) THEN "phpmyadmin" ELSE "pgadmin"

DatabaseDeployment(pr) ==
    IF pr.iface = "http"
    THEN IF IsMySQL(pr) THEN createMySQLDeployment(pr.req, pr.ns)
                        ELSE createPostgreSQLDeployment(pr.req, pr.ns)
    ELSE IF IsMySQL(pr) THEN K8sService_createMySQLDeployment(pr.req, pr.ns)
                        ELSE K8sService_createPostgreSQLDeployment(pr.req, pr.ns)

DatabaseService(pr) ==
    IF pr.iface = "http"
    THEN IF IsMySQL(pr) THEN createMySQLService(pr.req)
                        ELSE createPostgreSQLService(pr.req)
    ELSE IF IsMySQL(pr) THEN K8sService_createMySQLService(pr.req)
                        ELSE K8sService_createPostgreSQLService(pr.req)

AdminDeployment(pr) ==
    IF pr.iface = "http"
    THEN IF IsMySQL(pr) THEN createPhpMyAdminDeployment(pr.req, pr.ns)
                        ELSE createPgAdminDeployment(pr.req, pr.ns)
    ELSE IF IsMySQL(pr) THEN K8sService_createPhpMyAdminDeployment(pr.req, pr.ns)
                        ELSE K8sService_createPgAdminDeployment(pr.req, pr.ns)

AdminService(pr) ==
    IF pr.iface = "http"
    THEN IF IsMySQL(pr) THEN createPhpMyAdminService(pr.req)
                        ELSE createPgAdminService(pr.req)
    ELSE IF IsMySQL(pr) THEN K8sService_createPhpMyAdminService(pr.req)
                        ELSE K8sService_createPgAdminService(pr.req)

\* deployPostgreSQL / deployMySQL: create the database deployment
CreateDatabaseDeployment(p) ==
    /\ procs[p].op = "provision" /\ procs[p].pc = "dbDeployment"
    /\ CreateOrFail(p, "deployment", DatabaseDeployment(procs[p]), "dbService",
                    "failed to create database deployment")

\* deployPostgreSQL / deployMySQL: create the database service
CreateDatabaseService(p) ==
    /\ procs[p].op = "provision" /\ procs[p].pc = "dbService"
    /\ CreateOrFail(p, "service", DatabaseService(procs[p]), "adminDeployment",
                    "failed to create database service")

\* deployPostgreSQL / deployMySQL: create the admin console deployment
CreateAdminDeployment(p) ==
    /\ procs[p].op = "provision" /\ procs[p].pc = "adminDeployment"
    /\ CreateOrFail(p, "deployment", AdminDeployment(procs[p]), "adminService",
                    "failed to create admin deployment")

\* deployPostgreSQL / deployMySQL: create the admin console service
CreateAdminService(p) ==
    /\ procs[p].op = "provision" /\ procs[p].pc = "adminService"
    /\ CreateOrFail(p, "service", AdminService(procs[p]),
                    IF procs[p].iface = "http" THEN "headersMW" ELSE "stripMW",
                    "failed to create admin service")

\* the header-injection middleware deployPostgreSQL / deployMySQL ask for
HeadersMiddlewareOf(pr) ==
    IF IsMySQL(pr) THEN headersMiddleware(pr.req, pr.ns, "phpmyadmin")
                   ELSE headersMiddleware_pgadmin(pr.req, pr.ns)

\* the route deployPostgreSQL / deployMySQL ask for
IngressRouteOf(pr) ==
    IF IsMySQL(pr) THEN createTraefikIngressRoute(pr.req, pr.ns, "phpmyadmin", 80)
                   ELSE createPgAdminIngressRoute(pr.req, pr.ns, 80)

\* createPgAdminMiddleware / createTraefikMiddleware: the headers middleware
CreateHeadersMiddleware(p) ==
    LET pr == procs[p]
    IN  /\ pr.op = "provision" /\ pr.pc = "headersMW"
        /\ \/ /\ ~dynamicClient
              /\ procs' = [procs EXCEPT ![p] = Fail(pr, "dynamic client not available")]
              /\ UNCHANGED <<config, cluster, faults, naming>>
           \/ /\ dynamicClient
              /\ CreateOrFail(p, "middleware", HeadersMiddlewareOf(pr),
                              IF IsMySQL(pr) THEN "replacePathMW" ELSE "ingressRoute",
                              "failed to create headers middleware")

\* createTraefikMiddleware: the replacePathRegex middleware of phpMyAdmin
CreateReplacePathMiddleware(p) ==
    LET pr == procs[p]
    IN  /\ pr.op = "provision" /\ pr.pc = "replacePathMW"
        /\ CreateOrFail(p, "middleware",
                        replacePathMiddleware(pr.req, pr.ns, "phpmyadmin"),
                        "ingressRoute",
                        "failed to create replacePathRegex middleware")

\* createPgAdminIngressRoute / createTraefikIngressRoute
CreateIngressRoute(p) ==
    LET pr == procs[p]
    IN  /\ pr.op = "provision" /\ pr.pc = "ingressRoute"
        /\ \/ /\ ~dynamicClient
              /\ procs' = [procs EXCEPT ![p] = Fail(pr, "dynamic client not available")]
              /\ UNCHANGED <<config, cluster, faults, naming>>
           \/ /\ dynamicClient
              /\ CreateOrFail(p, "ingressroute", IngressRouteOf(pr), "respond",
                              "failed to create IngressRoute")

\* one create call of K8sService.createTraefikResources: its error is only
\* logged by the deploy function, which then builds its response
CreateOrWarn(p, kind, obj, pcNext) ==
    LET pr == procs[p]
    IN  /\ \E res \in CreateResults(kind, pr.ns, obj.name) :
             LET call == Call("create", kind, pr.ns, obj.name, obj, res)
             IN  /\ ApplyCreate(kind, pr.ns, obj, res)
                 /\ procs' = [procs EXCEPT ![p] =
                       Advance(pr, call, IF res = "ok" THEN pcNext ELSE "respond")]
        /\ UNCHANGED <<config, naming>>

\* K8sService.createTraefikResources: the stripPrefix middleware
K8sService_CreateStripMiddleware(p) ==
    LET pr == procs[p]
    IN  /\ pr.op = "provision" /\ pr.pc = "stripMW"
        /\ CreateOrWarn(p, "middleware",
                        K8sService_stripMiddleware(pr.req, pr.ns, AdminTypeOf(pr)),
                        "rpcRoute")

\* K8sService.createTraefikResources: the route
K8sService_CreateIngressRoute(p) ==
    LET pr == procs[p]
    IN  /\ pr.op = "provision" /\ pr.pc = "rpcRoute"
        /\ CreateOrWarn(p, "ingressroute",
                        K8sService_ingressRoute(pr.req, pr.ns, AdminTypeOf(pr)),
                        "respond")

\* the response of POST /api/databases
HttpResponse(dbRequest, targetNamespace, envPort) ==
    LET port0 == IF envPort = "" THEN "5432" ELSE envPort
        port  == IF dbRequest.Type = "mysql" THEN "3306" ELSE port0
        host  == dbRequest.Name \o "." \o targetNamespace \o ".svc.cluster.local"
        adminURL ==
            IF dbRequest.Type = "mysql"
            THEN "http://10.9.21.201/" \o targetNamespace \o "/"
                 \o dbRequest.Name \o "-phpmyadmin"
            ELSE "http://10.9.21.201/" \o targetNamespace \o "/"
                 \o dbRequest.Name \o "-pgadmin/login?next="
        adminType == IF dbRequest.Type = "mysql" THEN "phpMyAdmin" ELSE "pgAdmin"
    IN  [ Name |-> dbRequest.Name, Host |-> host, Port |-> port,
          Username |-> dbRequest.Username, Type |-> dbRequest.Type,
          Status |-> "creating", Namespace |-> targetNamespace,
          AdminURL |-> adminURL, AdminType |-> adminType ]

\* the response K8sService.deployPostgreSQL / deployMySQL build
K8sService_Response(req, namespace) ==
    LET host == req.Name \o "." \o namespace \o ".svc.cluster.local"
    IN  IF req.Type = "mysql"
        THEN [ Name |-> req.Name, Host |-> host, Port |-> "3306",
               Username |-> req.Username, Type |-> req.Type,
               Status |-> "creating", Namespace |-> namespace,
               AdminURL |-> "http://10.9.21.201/" \o namespace \o "/"
                            \o req.Name \o "-phpmyadmin",
               AdminType |-> "phpMyAdmin" ]
        ELSE [ Name |-> req.Name, Host |-> host, Port |-> "5432",
               Username |-> req.Username, Type |-> req.Type,
               Status |-> "creating", Namespace |-> namespace,
               AdminURL |-> "http://10.9.21.201/" \o namespace \o "/"
                            \o req.Name \o "-pgadmin",
               AdminType |-> "pgAdmin" ]

\* the success response of Provision is handed to the caller
Respond(p) ==
    LET pr == procs[p]
    IN  /\ pr.op = "provision" /\ pr.pc = "respond"
        /\ procs' = [procs EXCEPT ![p] =
              [pr EXCEPT !.pc = "done", !.outcome = "ok",
                         !.resp = IF pr.iface = "http"
                                  THEN HttpResponse(pr.req, pr.ns, dbPortEnv)
                                  ELSE K8sService_Response(pr.req, pr.ns)]]
        /\ UNCHANGED <<config, cluster, faults, naming>>

(***************************************************************************)
(* Decommission.                                                           *)
(***************************************************************************)
\* DELETE /api/databases/{namespace}/{name} up to deleteDatabaseDeployment
DeleteDatabases(p, namespace, dbName) ==
    LET pr == Started("decommission", "http",
                      [Name |-> dbName, Namespace |-> namespace],
                      [id |-> 0, handle |-> ""])
    IN  /\ CanStart(p)
        /\ procs' = [procs EXCEPT ![p] =
              IF ~clientset \/ ~dynamicClient
              THEN Fail(pr, "Kubernetes clients not available")
              ELSE [pr EXCEPT !.ns = namespace, !.pc = "getType"]]
        /\ UNCHANGED <<config, cluster, faults, naming>>

\* faulty variant of DeleteSequence: the admin workload goes before its identity
DeleteSequence_WorkloadFirst ==
    << "delRoute", "delMiddleware", "delAdminDeployment", "delAdminService",
       "delDbService", "delDbDeployment" >>

\* the order of the deletes of deleteMySQLResources / deletePostgreSQLResources
DeleteSequence ==
    << "delRoute", "delMiddleware", "delAdminService", "delAdminDeployment",
       "delDbService", "delDbDeployment" >>

\* the delete that follows the delete at pc
NextDelete(pc) ==
    LET i == CHOOSE j \in 1 .. Len(DeleteSequence) : DeleteSequence[j] = pc
    IN  DeleteSequence[i + 1]

\* Go's map lookup: the value, or "" when the key is absent
LabelOf(obj, key) == IF key \in DOMAIN obj.labels THEN obj.labels[key] ELSE ""

\* faulty variant of TypeReadError: a readable deployment is taken as a database
TypeReadError_Guess(res, labels) ==
    IF res # "ok" THEN "failed to determine database type" ELSE ""

\* the error deleteDatabaseDeployment returns after getDatabaseType read the
\* deployment with result res and these labels, "" when it goes on to delete
TypeReadError(res, labels) ==
    IF res # "ok"
    THEN "failed to determine database type"
    ELSE IF "db-saas/type" \notin DOMAIN labels
    THEN "failed to determine database type"
    ELSE IF labels["db-saas/type"] \in {"mysql", "postgresql"}
    THEN ""
    ELSE "unknown database type"

\* deleteDatabaseDeployment's call of getDatabaseType and its dispatch
getDatabaseType(p) ==
    LET pr == procs[p]
    IN  /\ pr.op = "decommission" /\ pr.pc = "getType"
        /\ \E res \in GetResults("deployment", pr.ns, pr.req.Name) :
             LET call == Call("get", "deployment", pr.ns, pr.req.Name, NoObject, res)
                 at   == Advance(pr, call, pr.pc)
                 deployment == IF res = "ok"
                               THEN ObjGet(deployments, pr.ns, pr.req.Name)
                               ELSE [labels |-> <<>>]
                 err  == TypeReadError(res, deployment.labels)
             IN  /\ procs' = [procs EXCEPT ![p] =
                       IF err # ""
                       THEN Fail(at, err)
                       ELSE [at EXCEPT !.pc = DeleteSequence[1],
                                       !.dbType = LabelOf(deployment, "db-saas/type")]]
                 /\ faults' = IF res = "Error" THEN faults + 1 ELSE faults
        /\ UNCHANGED <<config, cluster, naming>>

\* the admin type deleteMySQLResources / deletePostgreSQLResources pass on
DeleteAdminType(pr) == IF pr.dbType = "mysql" THEN "phpmyadmin" ELSE "pgadmin"

\* faulty variant of DeleteOrWarn: the error of the delete is returned
DeleteOrWarn_Fail(p, kind, name, pcNext) ==
    LET pr == procs[p]
    IN  /\ \E res \in DeleteResults(kind, pr.ns, name) :
             LET call == Call("delete", kind, pr.ns, name, NoObject, res)
             IN  /\ ApplyDelete(kind, pr.ns, name, res)
                 /\ procs' = [procs EXCEPT ![p] =
                       IF res = "ok" THEN Advance(pr, call, pcNext)
                       ELSE Fail(Advance(pr, call, pr.pc), "failed to delete")]
        /\ UNCHANGED <<config, naming>>

\* one delete call whose error is only logged as a warning
DeleteOrWarn(p, kind, name, pcNext) ==
    LET pr == procs[p]
    IN  /\ \E res \in DeleteResults(kind, pr.ns, name) :
             /\ ApplyDelete(kind, pr.ns, name, res)
             /\ procs' = [procs EXCEPT ![p] =
                   Advance(pr, Call("delete", kind, pr.ns, name, NoObject, res), pcNext)]
        /\ UNCHANGED <<config, naming>>

\* deleteTraefikIngressRoute
deleteTraefikIngressRoute(p) ==
    LET pr == procs[p]
    IN  /\ pr.op = "decommission" /\ pr.pc = "delRoute"
        /\ DeleteOrWarn(p, "ingressroute",
                        pr.req.Name \o "-" \o DeleteAdminType(pr) \o "-ingress",
                        NextDelete(pr.pc))

\* the middleware name deleteTraefikMiddleware deletes
DeletedMiddlewareName(dbName, adminType) ==
    dbName \o "-" \o adminType \o "-stripprefix"

\* deleteTraefikMiddleware
deleteTraefikMiddleware(p) ==
    LET pr == procs[p]
    IN  /\ pr.op = "decommission" /\ pr.pc = "delMiddleware"
        /\ DeleteOrWarn(p, "middleware",
                        DeletedMiddlewareName(pr.req.Name, DeleteAdminType(pr)),
                        NextDelete(pr.pc))

\* delete the admin console service
DeleteAdminService(p) ==
    LET pr == procs[p]
    IN  /\ pr.op = "decommission" /\ pr.pc = "delAdminService"
        /\ DeleteOrWarn(p, "service", pr.req.Name \o "-" \o DeleteAdminType(pr),
                        NextDelete(pr.pc))

\* delete the admin console deployment
DeleteAdminDeployment(p) ==
    LET pr == procs[p]
    IN  /\ pr.op = "decommission" /\ pr.pc = "delAdminDeployment"
        /\ DeleteOrWarn(p, "deployment", pr.req.Name \o "-" \o DeleteAdminType(pr),
                        NextDelete(pr.pc))

\* delete the database service
DeleteDatabaseService(p) ==
    LET pr == procs[p]
    IN  /\ pr.op = "decommission" /\ pr.pc = "delDbService"
        /\ DeleteOrWarn(p, "service", pr.req.Name, NextDelete(pr.pc))

\* what the last delete's result makes of the whole Decommission
AfterFinalDelete(pr, res) ==
    IF res = "ok"
    THEN [pr EXCEPT !.pc = "done", !.outcome = "ok"]
    ELSE Fail(pr, "failed to delete database deployment")

\* delete the database deployment: the only delete whose error is returned
DeleteDatabaseDeployment(p) ==
    LET pr == procs[p]
    IN  /\ pr.op = "decommission" /\ pr.pc = "delDbDeployment"
        /\ \E res \in DeleteResults("deployment", pr.ns, pr.req.Name) :
             LET call == Call("delete", "deployment", pr.ns, pr.req.Name, NoObject, res)
             IN  /\ ApplyDelete("deployment", pr.ns, pr.req.Name, res)
                 /\ procs' = [procs EXCEPT ![p] =
                       AfterFinalDelete(Advance(pr, call, pr.pc), res)]
        /\ UNCHANGED <<config, naming>>

\* AdminServer.DeleteDatabase: a mock that always reports success
AdminServer_DeleteDatabase(p, namespace, dbName) ==
    LET pr == Started("decommission", "rpc",
                      [Name |-> dbName, Namespace |-> namespace],
                      [id |-> 0, handle |-> ""])
    IN  /\ CanStart(p)
        /\ procs' = [procs EXCEPT ![p] =
              [pr EXCEPT !.ns = namespace, !.pc = "done", !.outcome = "ok"]]
        /\ UNCHANGED <<config, cluster, faults, naming>>

(***************************************************************************)
(* ListDatabases.                                                          *)
(***************************************************************************)
\* GET /api/databases/{namespace} up to listDatabasesInNamespace
GetDatabases(p, namespace) ==
    LET pr == Started("list", "http", [Name |-> "", Namespace |-> namespace],
                      [id |-> 0, handle |-> ""])
    IN  /\ CanStart(p)
        /\ procs' = [procs EXCEPT ![p] =
              IF ~clientset
              THEN Fail(pr, "Kubernetes client not available")
              ELSE [pr EXCEPT !.ns = namespace, !.pc = "listDeployments"]]
        /\ UNCHANGED <<config, cluster, faults, naming>>

\* the label selector of listDatabasesInNamespace
SelectedDeployments(namespace) ==
    { d \in deployments :
        /\ d.ns = namespace
        /\ LabelOf(d, "app.kubernetes.io/managed-by") = "db-saas"
        /\ LabelOf(d, "app.kubernetes.io/component") = "database" }

\* a request that has its answer
Finish(pr) == [pr EXCEPT !.pc = "done", !.outcome = "ok"]

\* listDatabasesInNamespace: the list call
ListDeployments(p) ==
    LET pr == procs[p]
    IN  /\ pr.op = "list" /\ pr.pc = "listDeployments"
        /\ \E res \in Transient \cup {"ok"} :
             LET call  == Call("list", "deployment", pr.ns, "", NoObject, res)
                 at    == Advance(pr, call, "probe")
                 items == SelectedDeployments(pr.ns)
             IN  /\ procs' = [procs EXCEPT ![p] =
                       IF res # "ok" THEN Fail(at, "Failed to list databases")
                       ELSE IF items = {} THEN Finish(at)
                       ELSE [at EXCEPT !.items = items]]
                 /\ faults' = IF res = "Error" THEN faults + 1 ELSE faults
        /\ UNCHANGED <<config, cluster, naming>>

\* the entry listDatabasesInNamespace builds for one deployment
ListEntry(deployment, namespace, probe) ==
    LET dbType == LabelOf(deployment, "db-saas/type")
        userID == LabelOf(deployment, "db-saas/user-id")
        status == IF probe = "ok" THEN "running" ELSE "error"
        adminURL ==
            IF dbType = "mysql"
            THEN "http://10.9.21.201/" \o namespace \o "/admin/phpmyadmin/"
                 \o deployment.name
            ELSE IF dbType = "postgresql"
            THEN "http://10.9.21.201/" \o namespace \o "/admin/pgadmin/"
                 \o deployment.name
            ELSE ""
        adminType == IF dbType = "mysql" THEN "phpMyAdmin"
                     ELSE IF dbType = "postgresql" THEN "pgAdmin" ELSE ""
    IN  [ name |-> deployment.name, type |-> dbType, status |-> status,
          namespace |-> namespace, userId |-> userID, adminUrl |-> adminURL,
          adminType |-> adminType ]

\* listDatabasesInNamespace: one turn of the loop (the service probe)
ProbeService(p) ==
    LET pr == procs[p]
    IN  /\ pr.op = "list" /\ pr.pc = "probe"
        /\ LET deployment == CHOOSE d \in pr.items : TRUE
           IN  \E res \in GetResults("service", pr.ns, deployment.name) :
                 LET call == Call("get", "service", pr.ns, deployment.name, NoObject, res)
                     at   == [Advance(pr, call, "probe") EXCEPT
                                !.items = @ \ {deployment},
                                !.listing = Append(@, ListEntry(deployment, pr.ns, res))]
                 IN  /\ procs' = [procs EXCEPT ![p] =
                           IF at.items = {} THEN Finish(at) ELSE at]
                     /\ faults' = IF res = "Error" THEN faults + 1 ELSE faults
        /\ UNCHANGED <<config, cluster, naming>>

\* AdminServer.GetUserDatabases: a mock that returns two fixed entries
AdminServer_GetUserDatabases(p, namespace) ==
    LET pr == Started("list", "rpc", [Name |-> "", Namespace |-> namespace],
                      [id |-> 0, handle |-> ""])
        databases ==
            << [ name |-> "postgres-quick-123", type |-> "postgresql",
                 status |-> "running", namespace |-> namespace, userId |-> "1",
                 adminUrl |-> "http://10.9.21.201/" \o namespace
                              \o "/admin/pgadmin/postgres-quick-123",
                 adminType |-> "pgAdmin" ],
               [ name |-> "mysql-quick-456", type |-> "mysql",
                 status |-> "running", namespace |-> namespace, userId |-> "1",
                 adminUrl |-> "http://10.9.21.201/" \o namespace
                              \o "/admin/phpmyadmin/mysql-quick-456",
                 adminType |-> "phpMyAdmin" ] >>
    IN  /\ CanStart(p)
        /\ procs' = [procs EXCEPT ![p] =
              [Finish(pr) EXCEPT !.ns = namespace, !.listing = databases]]
        /\ UNCHANGED <<config, cluster, faults, naming>>

(***************************************************************************)
(* Specification of the two servers on one cluster.                        *)
(***************************************************************************)
InitCluster ==
    /\ namespaces = {}
    /\ deployments = {}
    /\ services = {}
    /\ middlewares = {}
    /\ ingressroutes = {}
    /\ procs = [p \in Procs |-> IdleProc]
    /\ faults = 0

Init ==
    /\ clients \in BOOLEAN
    /\ clientset \in BOOLEAN
    /\ dynamicClient \in BOOLEAN
    /\ k8sService \in BOOLEAN
    /\ dbPortEnv \in DbPortEnv
    /\ sequential = FALSE
    /\ InitCluster
    /\ nmUserID = 0
    /\ nmUsername = ""
    /\ nmResult = <<>>
    /\ nmPeerID = 0
    /\ nmPeerName = ""
    /\ nmPeerResult = <<>>

StartEnsure(p) ==
    \E nsRequest \in NamespaceRequests : handleCreateUserNamespace(p, nsRequest)

StartProvision(p) ==
    \/ \E dbRequest \in HttpRequests : PostDatabases(p, dbRequest)
    \/ \E req \in RpcRequests : \E tenant \in Tenants :
         tenant.id = req.UserId /\ AdminServer_CreateDatabase(p, tenant, req)

StartDecommission(p) ==
    \E namespace \in RequestNamespaces : \E dbName \in DatabaseNames :
        \/ DeleteDatabases(p, namespace, dbName)
        \/ AdminServer_DeleteDatabase(p, namespace, dbName)

StartList(p) ==
    \E namespace \in RequestNamespaces :
        \/ GetDatabases(p, namespace)
        \/ AdminServer_GetUserDatabases(p, namespace)

Next ==
    \E p \in Procs :
        \/ StartEnsure(p)
        \/ StartProvision(p)
        \/ ensureNamespace_Get(p)
        \/ ensureNamespace_Create(p)
        \/ CreateDatabaseDeployment(p)
        \/ CreateDatabaseService(p)
        \/ CreateAdminDeployment(p)
        \/ CreateAdminService(p)
        \/ CreateHeadersMiddleware(p)
        \/ CreateReplacePathMiddleware(p)
        \/ CreateIngressRoute(p)
        \/ K8sService_CreateStripMiddleware(p)
        \/ K8sService_CreateIngressRoute(p)
        \/ Respond(p)
        \/ StartDecommission(p)
        \/ getDatabaseType(p)
        \/ deleteTraefikIngressRoute(p)
        \/ deleteTraefikMiddleware(p)
        \/ DeleteAdminService(p)
        \/ DeleteAdminDeployment(p)
        \/ DeleteDatabaseService(p)
        \/ DeleteDatabaseDeployment(p)
        \/ StartList(p)
        \/ ListDeployments(p)
        \/ ProbeService(p)

Spec == Init /\ [][Next]_vars

(***************************************************************************)
(* Specification of callers that send one request at a time: a request is  *)
(* sent once the previous one has its answer, as a retry is.               *)
(***************************************************************************)
SeqInit ==
    /\ clients = TRUE
    /\ clientset = TRUE
    /\ dynamicClient \in BOOLEAN
    /\ k8sService = TRUE
    /\ dbPortEnv = ""
    /\ sequential = TRUE
    /\ InitCluster
    /\ nmUserID = 0
    /\ nmUsername = ""
    /\ nmResult = <<>>
    /\ nmPeerID = 0
    /\ nmPeerName = ""
    /\ nmPeerResult = <<>>

SpecSeq == SeqInit /\ [][Next]_vars

(***************************************************************************)
(* Specification of the Naming Deriver alone: GetUserNamespace applied to  *)
(* tenant ids and handles of every length around the 63 byte limit.        *)
(***************************************************************************)
NamingInit ==
    /\ clients = TRUE
    /\ clientset = TRUE
    /\ dynamicClient = TRUE
    /\ k8sService = TRUE
    /\ dbPortEnv = ""
    /\ sequential = FALSE
    /\ InitCluster
    /\ nmUserID \in 0 .. MaxTenantID
    /\ nmUsername \in NamingHandles
    /\ nmResult = <<>>
    /\ nmPeerID = 0
    /\ nmPeerName = ""
    /\ nmPeerResult = <<>>

\* one call of GetUserNamespace
DeriveNamespace ==
    /\ Len(nmResult) < MaxNamingCalls
    /\ nmResult' = Append(nmResult, GetUserNamespace(nmUserID, nmUsername))
    /\ UNCHANGED <<config, cluster, procs, faults, nmUserID, nmUsername,
                   nmPeerID, nmPeerName, nmPeerResult>>

NamingNext == DeriveNamespace

SpecNaming == NamingInit /\ [][NamingNext]_vars

(***************************************************************************)
(* Isolation specification: GetUserNamespace applied to two registered     *)
(* tenants.  Registration accepts any non-empty user name.                 *)
(***************************************************************************)
IsolationInit ==
    /\ clients = TRUE
    /\ clientset = TRUE
    /\ dynamicClient = TRUE
    /\ k8sService = TRUE
    /\ dbPortEnv = ""
    /\ sequential = FALSE
    /\ InitCluster
    /\ nmUserID \in 1 .. MaxTenantID
    /\ nmUsername \in IsolationHandles
    /\ nmResult = <<>>
    /\ nmPeerID \in 1 .. MaxTenantID
    /\ nmPeerName \in IsolationHandles
    /\ nmPeerResult = <<>>

\* one call of GetUserNamespace for the second tenant
DerivePeerNamespace ==
    /\ Len(nmPeerResult) < MaxNamingCalls
    /\ nmPeerResult' = Append(nmPeerResult, GetUserNamespace(nmPeerID, nmPeerName))
    /\ UNCHANGED <<config, cluster, procs, faults, nmUserID, nmUsername, nmResult,
                   nmPeerID, nmPeerName>>

IsolationNext == DeriveNamespace \/ DerivePeerNamespace

SpecIsolation == IsolationInit /\ [][IsolationNext]_vars

(***************************************************************************)
(* Vocabulary of the claims.                                               *)
(***************************************************************************)
ProvisionOK(p) == procs[p].op = "provision" /\ procs[p].outcome = "ok"

\* the positions in a request's log of the calls verb/kind that succeeded
Succeeded(pr, verb, kind) ==
    { i \in 1 .. Len(pr.calls) :
        /\ pr.calls[i].verb = verb
        /\ pr.calls[i].kind = kind
        /\ pr.calls[i].result = "ok" }

\* the request created a middleware of that name and kind before position i
CreatedMiddlewareBefore(pr, i, name, kinds) ==
    \E j \in Succeeded(pr, "create", "middleware") :
        /\ j < i
        /\ pr.calls[j].obj.name = name
        /\ pr.calls[j].obj.kind \in kinds

PathRewriteKinds == {"stripPrefix", "replacePathRegex"}

\* the literal path prefix of a database's admin console
AdminSuffix(type) == IF type = "mysql" THEN "phpmyadmin" ELSE "pgadmin"

ExpectedPrefix(pr) ==
    "/" \o pr.ns \o "/" \o pr.req.Name \o "-" \o AdminSuffix(pr.req.Type)

(***************************************************************************)
(* C1: the admin_url a successful Provision returned equals the admin_url  *)
(* ListDatabases reports for the same database (same namespace and name,   *)
(* type mysql or postgresql).                                              *)
(***************************************************************************)
C1_AdminUrlRoundTrip ==
    \A p, q \in Procs :
        ( /\ ProvisionOK(p)
          /\ procs[p].req.Type \in {"mysql", "postgresql"}
          /\ procs[q].op = "list"
          /\ procs[q].ns = procs[p].resp.Namespace )
        => \A i \in 1 .. Len(procs[q].listing) :
             procs[q].listing[i].name = procs[p].req.Name
             => procs[q].listing[i].adminUrl = procs[p].resp.AdminURL

(***************************************************************************)
(* C2: every successful Provision of a postgresql database created a       *)
(* routing rule whose middleware list is the header-injection middleware   *)
(* alone: length 1, no prefix-strip and no regex-rewrite middleware.       *)
(***************************************************************************)
C2_PostgresRouteHeadersOnly ==
    \A p \in Procs :
        (ProvisionOK(p) /\ procs[p].req.Type = "postgresql")
        => \A i \in Succeeded(procs[p], "create", "ingressroute") :
             LET mws == procs[p].calls[i].obj.middlewares
             IN  /\ Len(mws) = 1
                 /\ CreatedMiddlewareBefore(procs[p], i, mws[1], {"headers"})

(***************************************************************************)
(* C3: every successful Provision of a mysql database created a routing    *)
(* rule with exactly two middlewares, the header-injection middleware      *)
(* first and one path-rewrite middleware second, both created before the   *)
(* routing rule.                                                           *)
(***************************************************************************)
C3_MySQLRouteHeadersThenRewrite ==
    \A p \in Procs :
        (ProvisionOK(p) /\ procs[p].req.Type = "mysql")
        => \A i \in Succeeded(procs[p], "create", "ingressroute") :
             LET mws == procs[p].calls[i].obj.middlewares
             IN  /\ Len(mws) = 2
                 /\ CreatedMiddlewareBefore(procs[p], i, mws[1], {"headers"})
                 /\ CreatedMiddlewareBefore(procs[p], i, mws[2], PathRewriteKinds)

(***************************************************************************)
(* C4: when a namespace ensurer looks up a namespace that already exists   *)
(* and the lookup answers, it returns no error, issues no create call and  *)
(* leaves the one namespace object of that name as it was.                 *)
(***************************************************************************)
C4_EnsureExistingNamespace ==
    [][\A p \in Procs :
         ( /\ procs[p].pc = "nsGet"
           /\ procs'[p] # procs[p]
           /\ NamespaceExists(procs[p].ns)
           /\ procs'[p].calls[Len(procs'[p].calls)].result # "Error" )
         => /\ procs'[p].outcome # "error"
            /\ procs'[p].pc \notin {"nsGet", "nsCreate"}
            /\ procs[p].op = "ensure" => procs'[p].outcome = "ok"
            /\ Succeeded(procs'[p], "create", "namespace") = {}
            /\ Len(procs'[p].calls) = Len(procs[p].calls) + 1
            /\ namespaces' = namespaces
            /\ Cardinality({o \in namespaces' : o.name = procs[p].ns}) = 1]_vars

\* the ensurer ran twice on one namespace: the first call created it, the
\* second found it and answered success after its lookup alone
C4_Witness ==
    \E p, q \in Procs :
        /\ p # q
        /\ procs[p].op = "ensure" /\ procs[q].op = "ensure"
        /\ procs[p].ns = procs[q].ns
        /\ Succeeded(procs[p], "create", "namespace") # {}
        /\ Len(procs[q].calls) = 1
        /\ procs[q].calls[1].verb = "get" /\ procs[q].calls[1].result = "ok"
        /\ procs[q].outcome = "ok"

(***************************************************************************)
(* C5: the create of the database workload succeeds when no workload of    *)
(* that (namespace, name) exists and returns a conflict when one does; on  *)
(* the conflict the Provision is reported as failed, it issues no further  *)
(* call, and the existing workload and the rest of the cluster stay as     *)
(* they were.                                                              *)
(***************************************************************************)
C5_SecondWorkloadCreateConflicts ==
    [][\A p \in Procs :
         ( /\ procs[p].op = "provision"
           /\ procs[p].pc = "dbDeployment"
           /\ procs'[p] # procs[p]
           /\ procs'[p].calls[Len(procs'[p].calls)].result # "Error" )
         => LET call    == procs'[p].calls[Len(procs'[p].calls)]
                existed == ObjExists(deployments, procs[p].ns, procs[p].req.Name)
            IN  /\ call.verb = "create" /\ call.kind = "deployment"
                /\ call.name = procs[p].req.Name
                /\ existed =>
                     /\ call.result = "AlreadyExists"
                     /\ procs'[p].pc = "done" /\ procs'[p].outcome = "error"
                     /\ cluster' = cluster
                /\ ~existed =>
                     /\ call.result = "ok"
                     /\ procs'[p].outcome = ""
                     /\ ObjExists(deployments', procs[p].ns, procs[p].req.Name)]_vars

\* two Provisions of one (namespace, name): the first created the workload,
\* the second got the conflict on the workload and was reported as failed
C5_Witness ==
    \E p, q \in Procs :
        /\ p # q
        /\ procs[p].op = "provision" /\ procs[q].op = "provision"
        /\ procs[p].ns = procs[q].ns /\ procs[p].req.Name = procs[q].req.Name
        /\ \E i \in Succeeded(procs[p], "create", "deployment") :
             procs[p].calls[i].name = procs[p].req.Name
        /\ procs[q].pc = "done" /\ procs[q].outcome = "error"
        /\ LET last == procs[q].calls[Len(procs[q].calls)]
           IN  /\ last.verb = "create" /\ last.kind = "deployment"
               /\ last.name = procs[q].req.Name
               /\ last.result = "AlreadyExists"

\* a Decommission of the HTTP server that has read the database type back
TypeReadBack(p) == procs[p].op = "decommission" /\ procs[p].dbType # ""

\* the delete calls of a request, in the order issued
Deletes(pr) == SelectSeq(pr.calls, LAMBDA c : c.verb = "delete")

\* what a delete call of a Decommission removes
DeleteRole(pr, c) ==
    LET admin == pr.req.Name \o "-" \o AdminSuffix(pr.dbType)
    IN  CASE c.kind = "ingressroute" -> "route"
          [] c.kind = "middleware" -> "middleware"
          [] c.kind = "service" /\ c.name = admin -> "admin identity"
          [] c.kind = "deployment" /\ c.name = admin -> "admin workload"
          [] c.kind = "service" /\ c.name = pr.req.Name -> "database identity"
          [] c.kind = "deployment" /\ c.name = pr.req.Name -> "database workload"
          [] OTHER -> "other"

DeleteRoles(pr) == [i \in 1 .. Len(Deletes(pr)) |-> DeleteRole(pr, Deletes(pr)[i])]

DecommissionOrder ==
    << "route", "middleware", "admin identity", "admin workload",
       "database identity", "database workload" >>

(***************************************************************************)
(* C6: once Decommission has read the database type back, its result is    *)
(* that of the final delete, the one of the database workload: it answers  *)
(* only after that delete, success when the delete succeeded and failure   *)
(* when it did not, whatever the earlier deletes returned.                 *)
(***************************************************************************)
C6_ResultIsFinalDelete ==
    \A p \in Procs :
        TypeReadBack(p)
        => LET pr   == procs[p]
               dels == Deletes(pr)
               n    == Len(dels)
               final == n > 0 /\ DeleteRole(pr, dels[n]) = "database workload"
           IN  /\ (pr.outcome # "") = final
               /\ (pr.outcome # "") = (pr.pc = "done")
               /\ final => (pr.outcome = "ok") = (dels[n].result = "ok")

\* a Decommission answered success although an earlier delete had failed
C6_Witness ==
    \E p \in Procs :
        /\ TypeReadBack(p)
        /\ procs[p].outcome = "ok"
        /\ \E i \in 1 .. Len(Deletes(procs[p])) - 1 :
             Deletes(procs[p])[i].result # "ok"

(***************************************************************************)
(* C7: for both database types Decommission issues its deletes in the      *)
(* order route, middleware, admin network identity, admin workload,        *)
(* database network identity, database workload; the database workload is  *)
(* always the last one deleted.                                            *)
(***************************************************************************)
C7_DeleteOrder ==
    \A p \in Procs :
        TypeReadBack(p)
        => LET roles == DeleteRoles(procs[p])
           IN  /\ Len(roles) <= Len(DecommissionOrder)
               /\ roles = SubSeq(DecommissionOrder, 1, Len(roles))
               /\ procs[p].pc = "done" => roles = DecommissionOrder

\* a Decommission ran to its end: six deletes, the database workload last
C7_Witness ==
    \E p \in Procs :
        /\ TypeReadBack(p)
        /\ procs[p].pc = "done"
        /\ Len(Deletes(procs[p])) = Len(DecommissionOrder)
        /\ \A i \in 1 .. Len(Deletes(procs[p]) ) - 1 :
             DeleteRole(procs[p], Deletes(procs[p])[i]) # "database workload"

(***************************************************************************)
(* C8: the derived namespace is the decimal tenant id followed by the      *)
(* tenant handle, cut to its first 63 characters when longer; it is never  *)
(* longer than 63 characters, and the same input gives the same result.    *)
(***************************************************************************)
C8_DeriveNamespace ==
    LET full == Itoa(nmUserID) \o nmUsername
    IN  \A i \in 1 .. Len(nmResult) :
            /\ Len(nmResult[i]) <= 63
            /\ nmResult[i] = IF Len(full) <= 63 THEN full ELSE SubSeq(full, 1, 63)
            /\ \A j \in 1 .. Len(nmResult) : nmResult[j] = nmResult[i]

\* an id and a handle of more than 63 characters together were derived twice
C8_Witness ==
    /\ Len(Itoa(nmUserID) \o nmUsername) > 63
    /\ Len(nmResult) >= 2
    /\ Len(nmResult[1]) = 63

(***************************************************************************)
(* C9: every successful Provision, on the HTTP and on the RPC interface,   *)
(* creates all its resources in, and reports, the namespace derived from   *)
(* the tenant's id and handle: tenant (7, "alice") gets "7alice".          *)
(***************************************************************************)
C9_ProvisionInTenantNamespace ==
    \A p \in Procs :
        ProvisionOK(p)
        => LET pr == procs[p]
               namespace == GetUserNamespace(pr.tenant.id, pr.tenant.handle)
           IN  /\ pr.resp.Namespace = namespace
               /\ \A i \in 1 .. Len(pr.calls) :
                    pr.calls[i].verb = "create"
                    => IF pr.calls[i].kind = "namespace"
                       THEN pr.calls[i].name = namespace
                       ELSE pr.calls[i].ns = namespace

(***************************************************************************)
(* C10: for every successful Provision of a mysql or postgresql database   *)
(* the literal prefix /{namespace}/{database}-{admin-suffix} is the        *)
(* PathPrefix of the created route, the path of the returned admin_url     *)
(* (the entry point followed by the prefix and nothing else) and, for      *)
(* postgresql, the SCRIPT_NAME of the admin console.                       *)
(***************************************************************************)
C10_OnePathPrefix ==
    \A p \in Procs :
        (ProvisionOK(p) /\ procs[p].req.Type \in {"mysql", "postgresql"})
        => LET pr     == procs[p]
               prefix == ExpectedPrefix(pr)
               admin  == pr.req.Name \o "-" \o AdminSuffix(pr.req.Type)
           IN  /\ \A i \in Succeeded(pr, "create", "ingressroute") :
                    pr.calls[i].obj.match.pathPrefix = prefix
               /\ pr.resp.AdminURL = "http://" \o EntryHost \o prefix
               /\ pr.req.Type = "postgresql"
                  => \A i \in Succeeded(pr, "create", "deployment") :
                       pr.calls[i].name = admin
                       => { e.value : e \in { d \in pr.calls[i].obj.env :
                                               d.name = "SCRIPT_NAME" } }
                          = {prefix}

(***************************************************************************)
(* C11: two tenants with different ids whose id and handle together have   *)
(* at most 63 characters never get the same namespace.                     *)
(***************************************************************************)
C11_TenantsIsolated ==
    \A i \in 1 .. Len(nmResult) : \A j \in 1 .. Len(nmPeerResult) :
        ( /\ nmUserID # nmPeerID
          /\ Len(Itoa(nmUserID) \o nmUsername) <= 63
          /\ Len(Itoa(nmPeerID) \o nmPeerName) <= 63 )
        => nmResult[i] # nmPeerResult[j]

(***************************************************************************)
(* C12: whenever a Decommission, on either interface, hands success to its *)
(* caller, the database workload of that name no longer exists in that     *)
(* namespace.                                                              *)
(***************************************************************************)
C12_DecommissionRemovesWorkload ==
    [][ \A p \in Procs :
          ( /\ procs[p].outcome # "ok"
            /\ procs'[p].op = "decommission"
            /\ procs'[p].outcome = "ok" )
          => ~ObjExists(deployments', procs'[p].ns, procs'[p].req.Name) ]_vars

(***************************************************************************)
(* C13: the record a successful Provision returns has the host             *)
(* "{name}.{namespace}.svc.cluster.local", the port of the database type   *)
(* (5432 for postgresql, 3306 for mysql) whatever the process environment, *)
(* the request's username and type, the status "creating", the derived     *)
(* namespace and the admin type of the database type.                      *)
(***************************************************************************)
C13_ProvisionRecord ==
    \A p \in Procs :
        ProvisionOK(p) =>
            LET pr == procs[p]
            IN  /\ pr.resp.Host = pr.req.Name \o "." \o pr.ns \o ".svc.cluster.local"
                /\ pr.resp.Port = (IF pr.req.Type = "mysql" THEN "3306" ELSE "5432")
                /\ pr.resp.Username = pr.req.Username
                /\ pr.resp.Type = pr.req.Type
                /\ pr.resp.Status = "creating"
                /\ pr.resp.Namespace = pr.ns
                /\ pr.resp.AdminType =
                       (IF pr.req.Type = "mysql" THEN "phpMyAdmin" ELSE "pgAdmin")

\* the place of a call in the order of the steps of a Provision
ProvisionStep(pr, c) ==
    CASE c.kind = "namespace" -> 1
      [] c.kind = "deployment" /\ c.name = pr.req.Name -> 2
      [] c.kind = "service" /\ c.name = pr.req.Name -> 3
      [] c.kind = "deployment" /\ c.name # pr.req.Name -> 4
      [] c.kind = "service" /\ c.name # pr.req.Name -> 5
      [] c.kind = "middleware" -> 6
      [] c.kind = "ingressroute" -> 7

\* call b may directly follow call a in a Provision: b is the next step after
\* a success of a, or the create of the namespace ensurer after its look
\* found no namespace, or a further middleware after a middleware was created
FollowsInOrder(pr, a, b) ==
    \/ /\ ProvisionStep(pr, b) = ProvisionStep(pr, a) + 1
       /\ a.result = "ok"
       /\ b.verb = "create"
    \/ /\ a.kind = "namespace" /\ a.verb = "get" /\ a.result # "ok"
       /\ b.kind = "namespace" /\ b.verb = "create"
    \/ /\ a.kind = "middleware" /\ a.result = "ok"
       /\ b.kind = "middleware" /\ b.verb = "create" /\ b.name # a.name

(***************************************************************************)
(* C14: the calls of one Provision are issued one after another in the     *)
(* order namespace, database workload, database identity, admin workload,  *)
(* admin identity, middlewares, route, each step only after the previous   *)
(* step returned success.                                                  *)
(***************************************************************************)
C14_ProvisionOrder ==
    \A p \in Procs :
        procs[p].op = "provision" =>
            LET pr == procs[p]
            IN  /\ Len(pr.calls) >= 1 =>
                      pr.calls[1].kind = "namespace" /\ pr.calls[1].verb = "get"
                /\ \A i \in 2 .. Len(pr.calls) :
                      FollowsInOrder(pr, pr.calls[i - 1], pr.calls[i])

\* a mysql Provision went through all its steps: the namespace was missing
\* and created, then four workload objects, two middlewares and the route
C14_Witness ==
    \E p \in Procs :
        /\ ProvisionOK(p)
        /\ Len(procs[p].calls) = 9
        /\ procs[p].calls[9].kind = "ingressroute"
        /\ procs[p].calls[9].result = "ok"

\* the positions in a Provision's log of the steps that failed: a create that
\* was refused, or a look for the namespace that ended the request
FailedSteps(pr) ==
    { i \in 1 .. Len(pr.calls) :
        \/ pr.calls[i].verb = "create" /\ pr.calls[i].result # "ok"
        \/ /\ pr.calls[i].verb = "get" /\ pr.calls[i].result = "Error"
           /\ AfterNamespaceGet(pr.op, pr.iface, "Error") = "failed" }

(***************************************************************************)
(* C15: when a step of a Provision fails, the Provision stops failed: the  *)
(* failed call is its last call, it issues no delete call, and its caller  *)
(* gets an error, never success.                                           *)
(***************************************************************************)
C15_FailedProvisionStops ==
    \A p \in Procs :
        procs[p].op = "provision" =>
            /\ \A i \in FailedSteps(procs[p]) :
                  /\ i = Len(procs[p].calls)
                  /\ procs[p].outcome # "ok"
            /\ \A i \in 1 .. Len(procs[p].calls) : procs[p].calls[i].verb # "delete"

(***************************************************************************)
(* C16: Provision fails closed on routing: no Provision hands success to   *)
(* its caller unless it created the routing rule of the database.          *)
(***************************************************************************)
C16_RoutingFailsClosed ==
    \A p \in Procs :
        ProvisionOK(p) => Succeeded(procs[p], "create", "ingressroute") # {}

\* the request looked for its namespace, found none and then asked to create it
\* with that result
LostNamespaceRace(pr, res) ==
    /\ pr.op = "provision"
    /\ Len(pr.calls) >= 2
    /\ pr.calls[1].verb = "get" /\ pr.calls[1].kind = "namespace"
    /\ pr.calls[1].result = "NotFound"
    /\ pr.calls[2].verb = "create" /\ pr.calls[2].kind = "namespace"
    /\ pr.calls[2].result = res

(***************************************************************************)
(* C17: when two first-time Provisions of one tenant both see the          *)
(* namespace missing, the one whose namespace create answers "already      *)
(* exists" does not fail at that step.                                     *)
(***************************************************************************)
C17_NamespaceRaceTolerated ==
    \A p, q \in Procs :
        ( /\ p # q
          /\ procs[p].ns = procs[q].ns
          /\ LostNamespaceRace(procs[q], "ok")
          /\ LostNamespaceRace(procs[p], "AlreadyExists") )
        => ~(procs[p].outcome = "error" /\ Len(procs[p].calls) = 2)

\* the database workload a Decommission names does not tell a database type:
\* the read failed, or the deployment has no type label or another value
TypeUnknown(pr, res) ==
    \/ res # "ok"
    \/ /\ ObjExists(deployments, pr.ns, pr.req.Name)
       /\ LabelOf(ObjGet(deployments, pr.ns, pr.req.Name), "db-saas/type")
              \notin {"mysql", "postgresql"}

(***************************************************************************)
(* C18: when the read of the database workload fails, or the workload has  *)
(* no database-type label or a value other than mysql/postgresql, the      *)
(* Decommission fails with an error, has issued no delete call, leaves     *)
(* every resource unchanged and does nothing afterwards.                   *)
(***************************************************************************)
C18_UnknownTypeFails ==
    [][ \A p \in Procs :
          /\ ( /\ procs[p].op = "decommission"
               /\ procs[p].pc = "getType"
               /\ procs'[p] # procs[p]
               /\ TypeUnknown(procs[p], procs'[p].calls[1].result) )
             => /\ procs'[p].pc = "done"
                /\ procs'[p].outcome = "error"
                /\ Deletes(procs'[p]) = << >>
                /\ UNCHANGED cluster
          /\ ( /\ procs[p].op = "decommission"
               /\ procs[p].pc = "done"
               /\ procs[p].dbType = "" )
             => procs'[p] = procs[p] ]_vars

\* a Decommission named the pgAdmin deployment of a database, which carries no
\* database-type label, and failed after its read
C18_Witness ==
    \E p \in Procs :
        /\ procs[p].op = "decommission"
        /\ procs[p].outcome = "error"
        /\ Len(procs[p].calls) = 1
        /\ procs[p].calls[1].result = "ok"
        /\ ObjExists(deployments, procs[p].ns, procs[p].req.Name)
        /\ "db-saas/type" \notin
               DOMAIN ObjGet(deployments, procs[p].ns, procs[p].req.Name).labels

\* call c of a request met the object that call d of another request created:
\* c was refused because the object exists, or c deleted it
MeetsObjectOf(c, d) ==
    /\ d.verb = "create" /\ d.result = "ok"
    /\ c.kind = d.kind /\ c.ns = d.ns /\ c.name = d.name
    /\ \/ c.verb = "create" /\ c.result = "AlreadyExists"
       \/ c.verb = "delete" /\ c.result = "ok"

(***************************************************************************)
(* C19: requests for different (namespace, database name) pairs are        *)
(* independent: a Provision is never refused by, and a Decommission never  *)
(* deletes, a workload, identity, middleware or route that a Provision of  *)
(* another database created.                                               *)
(***************************************************************************)
C19_PairsIndependent ==
    \A p, q \in Procs :
        ( /\ procs[p].op \in {"provision", "decommission"}
          /\ procs[q].op = "provision"
          /\ \E i \in 1 .. Len(procs[p].calls) : \E j \in 1 .. Len(procs[q].calls) :
                /\ procs[p].calls[i].kind # "namespace"
                /\ MeetsObjectOf(procs[p].calls[i], procs[q].calls[j]) )
        => procs[p].req.Name = procs[q].req.Name

(***************************************************************************)
(* C20: a Decommission that is retried after an earlier Decommission of    *)
(* the same database has deleted its resources completes without error,    *)
(* when no call of the retry meets an API error other than not-found.      *)
(***************************************************************************)
C20_RetryCompletes ==
    \A p, q \in Procs :
        ( /\ q = p + 1
          /\ TypeReadBack(p) /\ procs[p].outcome = "ok"
          /\ procs[q].op = "decommission" /\ procs[q].iface = "http"
          /\ procs[q].ns = procs[p].ns
          /\ procs[q].req.Name = procs[p].req.Name
          /\ procs[q].pc = "done"
          /\ \A i \in 1 .. Len(procs[q].calls) : procs[q].calls[i].result # "Error" )
        => procs[q].outcome = "ok"

(***************************************************************************)
(* C21: when a Decommission that read the database type back hands success *)
(* to its caller, neither the database workload nor the admin console      *)
(* workload of that database exists in the namespace, whatever the single  *)
(* delete calls returned.                                                  *)
(***************************************************************************)
C21_NoDanglingWorkload ==
    [][ \A p \in Procs :
          ( /\ procs[p].outcome # "ok"
            /\ procs'[p].op = "decommission"
            /\ procs'[p].dbType # ""
            /\ procs'[p].outcome = "ok" )
          => /\ ~ObjExists(deployments', procs'[p].ns, procs'[p].req.Name)
             /\ ~ObjExists(deployments', procs'[p].ns,
                           procs'[p].req.Name \o "-" \o AdminSuffix(procs'[p].dbType))
      ]_vars

\* two Provision requests of one tenant for the same database and type
Identical(p, q) ==
    /\ p # q
    /\ procs[p].op = "provision" /\ procs[q].op = "provision"
    /\ procs[p].ns # "" /\ procs[p].ns = procs[q].ns
    /\ procs[p].req.Name = procs[q].req.Name
    /\ procs[p].req.Type = procs[q].req.Type

\* the workloads, identities, middlewares and routes a request created
CreatedObjects(pr) ==
    { i \in 1 .. Len(pr.calls) :
        /\ pr.calls[i].verb = "create"
        /\ pr.calls[i].kind # "namespace"
        /\ pr.calls[i].result = "ok" }

\* no two objects of one kind have the same namespace and name
NoDuplicate(objs) ==
    \A o1, o2 \in objs : (o1.ns = o2.ns /\ o1.name = o2.name) => o1 = o2

(***************************************************************************)
(* C22: of two identical Provision requests at most one succeeds; when one *)
(* succeeded, the other one ends in an error without having created any    *)
(* workload, identity, middleware or route, and that error is the conflict *)
(* answer of a create unless the API failed; no resource exists twice.     *)
(***************************************************************************)
C22_IdenticalProvisions ==
    /\ \A p, q \in Procs :
          (Identical(p, q) /\ ProvisionOK(q))
          => /\ ~ProvisionOK(p)
             /\ CreatedObjects(procs[p]) = {}
             /\ procs[p].pc = "done" =>
                   /\ procs[p].outcome = "error"
                   /\ Len(procs[p].calls) >= 1
                   /\ LET last == procs[p].calls[Len(procs[p].calls)]
                      IN  \/ last.verb = "create" /\ last.result = "AlreadyExists"
                          \/ last.result = "Error"
    /\ NoDuplicate(deployments) /\ NoDuplicate(services)
    /\ NoDuplicate(middlewares) /\ NoDuplicate(ingressroutes)

\* one of two identical Provisions succeeded, the other one was refused at the
\* create of the database workload
C22_Witness ==
    \E p, q \in Procs :
        /\ Identical(p, q) /\ ProvisionOK(q)
        /\ procs[p].outcome = "error"
        /\ procs[p].calls[Len(procs[p].calls)].kind = "deployment"
        /\ procs[p].calls[Len(procs[p].calls)].result = "AlreadyExists"

(***************************************************************************)
(* C23: the header-injection middleware a Provision creates injects        *)
(* exactly the tenant's id, the tenant's handle (the one the namespace was *)
(* derived from) and the derived namespace.                                *)
(***************************************************************************)
C23_HeadersCarryTenant ==
    \A p \in Procs :
        procs[p].op = "provision" =>
            \A i \in Succeeded(procs[p], "create", "middleware") :
                procs[p].calls[i].obj.kind = "headers" =>
                    procs[p].calls[i].obj.headers =
                        Label("X-User-ID", Itoa(procs[p].req.UserID))
                        @@ Label("X-Username", procs[p].req.UserName)
                        @@ Label("X-Namespace",
                                 GetUserNamespace(procs[p].req.UserID,
                                                  procs[p].req.UserName))

\* the objects of a kind a request created
Created(pr, kind) == { pr.calls[i].obj : i \in Succeeded(pr, "create", kind) }

RECURSIVE ThroughMiddlewares(_, _, _)
\* the path after the middlewares the route names, in the route's order, taken
\* from the middlewares the request created
ThroughMiddlewares(pr, names, path) ==
    IF names = << >> THEN path
    ELSE LET mws  == { m \in Created(pr, "middleware") : m.name = Head(names) }
             next == IF mws = {} THEN path
                     ELSE ApplyMiddleware(CHOOSE m \in mws : TRUE, path)
         IN  ThroughMiddlewares(pr, Tail(names), next)

\* request paths under the admin console's prefix: the bare prefix (the path
\* of the admin_url), the prefix with a slash, a page below it
ConsolePaths(prefix) == { prefix, prefix \o "/", prefix \o "/index.php" }

\* the root-relative path the console expects for a path under the prefix
RootRelative(prefix, path) ==
    IF path = prefix THEN "/" ELSE TrimPrefix(path, prefix)

(***************************************************************************)
(* C24: for a mysql database every request path the route matches, the     *)
(* bare prefix of the admin_url included, reaches phpMyAdmin root-relative *)
(* with the /{namespace}/{database_name}-phpmyadmin prefix removed.        *)
(***************************************************************************)
C24_MySQLPathsRewritten ==
    \A p \in Procs :
        (ProvisionOK(p) /\ procs[p].req.Type = "mysql") =>
            \A route \in Created(procs[p], "ingressroute") :
                \A path \in ConsolePaths(ExpectedPrefix(procs[p])) :
                    RouteMatches(route, path) =>
                        ThroughMiddlewares(procs[p], route.middlewares, path)
                            = RootRelative(ExpectedPrefix(procs[p]), path)

\* the request in the last slot used so far: nothing ran after it
LatestRequest(p) == \A q \in Procs : q > p => procs[q].pc = "idle"

(***************************************************************************)
(* C25: a ListDatabases that met no API error returns one entry for each   *)
(* workload of the namespace labelled managed-by=db-saas and               *)
(* component=database and no other entry, with the status "running" when a *)
(* network identity of the entry's name exists in the namespace and        *)
(* "error" when none does.                                                 *)
(***************************************************************************)
C25_ListMatchesCluster ==
    \A p \in Procs :
        ( /\ procs[p].op = "list" /\ procs[p].outcome = "ok"
          /\ LatestRequest(p)
          /\ \A i \in 1 .. Len(procs[p].calls) : procs[p].calls[i].result # "Error" )
        => LET listing == procs[p].listing
               ns      == procs[p].ns
           IN  /\ { listing[i].name : i \in 1 .. Len(listing) }
                      = { d.name : d \in SelectedDeployments(ns) }
               /\ Len(listing) = Cardinality(SelectedDeployments(ns))
               /\ \A i \in 1 .. Len(listing) :
                     listing[i].status =
                         (IF ObjExists(services, ns, listing[i].name)
                          THEN "running" ELSE "error")

(***************************************************************************)
(* C26: no step deletes or modifies a namespace: a namespace that exists   *)
(* is there with the same labels after every step, and no second object of *)
(* its name appears.                                                       *)
(***************************************************************************)
C26_NamespacesKept ==
    [][ /\ \A o \in namespaces : o \in namespaces'
        /\ \A n \in namespaces' :
              (\E o \in namespaces : o.name = n.name) => n \in namespaces ]_vars

\* a namespace outlived a successful Decommission in it and was found again by
\* a later Provision
C26_Witness ==
    \E p, q \in Procs :
        /\ p < q
        /\ TypeReadBack(p) /\ procs[p].outcome = "ok"
        /\ procs[q].op = "provision" /\ procs[q].ns = procs[p].ns
        /\ Len(procs[q].calls) >= 1
        /\ procs[q].calls[1].kind = "namespace" /\ procs[q].calls[1].result = "ok"
        /\ NamespaceExists(procs[p].ns)

(***************************************************************************)
(* C27: a namespace ensurer asks to create the namespace only after its    *)
(* get answered not-found; after a get that failed with another error the  *)
(* request has failed and made no create call.                             *)
(***************************************************************************)
C27_CreateOnlyOnNotFound ==
    \A p \in Procs :
        \A i \in 1 .. Len(procs[p].calls) :
            LET c == procs[p].calls[i]
            IN  /\ (c.kind = "namespace" /\ c.verb = "create") =>
                      /\ i > 1
                      /\ procs[p].calls[i - 1].kind = "namespace"
                      /\ procs[p].calls[i - 1].verb = "get"
                      /\ procs[p].calls[i - 1].result = "NotFound"
                /\ (c.kind = "namespace" /\ c.verb = "get" /\ c.result = "Error") =>
                      /\ procs[p].outcome = "error"
                      /\ i = Len(procs[p].calls)

\* the admin console workload a request created
CreatedConsoles(pr) ==
    { d \in Created(pr, "deployment") : d.name # pr.req.Name }

\* the console is told its mount path
HasSubpath(console) == \E e \in console.env : e.name = "SCRIPT_NAME"

\* the path-rewrite middlewares a route of the request carries
RouteRewrites(pr, route) ==
    { m \in Created(pr, "middleware") :
        /\ m.kind \in PathRewriteKinds
        /\ \E i \in 1 .. Len(route.middlewares) : route.middlewares[i] = m.name }

(***************************************************************************)
(* C28: the path rewrite matches the console's mount path: a route names   *)
(* only middlewares its Provision created, an admin console has its        *)
(* subpath (SCRIPT_NAME) exactly when its route carries no strip or regex  *)
(* middleware, and a console without subpath has exactly one of them.      *)
(***************************************************************************)
C28_RewriteMatchesMountPath ==
    \A p \in Procs :
        procs[p].op = "provision" =>
            \A route \in Created(procs[p], "ingressroute") :
                /\ \A i \in 1 .. Len(route.middlewares) :
                      \E m \in Created(procs[p], "middleware") :
                          m.name = route.middlewares[i]
                /\ CreatedConsoles(procs[p]) # {}
                /\ \A console \in CreatedConsoles(procs[p]) :
                      /\ HasSubpath(console) <=> RouteRewrites(procs[p], route) = {}
                      /\ ~HasSubpath(console) =>
                            Cardinality(RouteRewrites(procs[p], route)) = 1

\* one Provision routed a pgAdmin with its subpath and no rewrite, another one
\* a console without subpath behind a rewrite
C28_Witness ==
    \E p, q \in Procs :
        /\ ProvisionOK(p) /\ ProvisionOK(q)
        /\ Created(procs[p], "ingressroute") # {}
        /\ Created(procs[q], "ingressroute") # {}
        /\ \E console \in CreatedConsoles(procs[p]) : HasSubpath(console)
        /\ \E console \in CreatedConsoles(procs[q]) : ~HasSubpath(console)

(***************************************************************************)
(* C29: after a successful Provision and then a successful Decommission of *)
(* the same namespace and database name, in which no delete met an API     *)
(* error, no object the Provision created is left in the cluster.          *)
(***************************************************************************)
C29_DecommissionUndoesProvision ==
    \A p, q \in Procs :
        ( /\ q = p + 1
          /\ ProvisionOK(p)
          /\ TypeReadBack(q) /\ procs[q].outcome = "ok"
          /\ procs[q].ns = procs[p].ns
          /\ procs[q].req.Name = procs[p].req.Name
          /\ \A i \in 1 .. Len(procs[q].calls) : procs[q].calls[i].result # "Error"
          /\ LatestRequest(q) )
        => \A i \in CreatedObjects(procs[p]) :
              ~ObjExists(Kind(procs[p].calls[i].kind), procs[p].calls[i].ns,
                         procs[p].calls[i].name)

(***************************************************************************)
(* C30: for every type string Provision accepts, the type in the response  *)
(* of a successful Provision equals the db-saas/type label on the database *)
(* workload it created.                                                    *)
(***************************************************************************)
C30_ReportedTypeIsLabel ==
    \A p \in Procs :
        ProvisionOK(p) =>
            \A d \in Created(procs[p], "deployment") :
                d.name = procs[p].req.Name =>
                    LabelOf(d, "db-saas/type") = procs[p].resp.Type

====
